---- MODULE Spec2Model ----
(***************************************************************************)
(* Model of the retrieval + index-caching subsystem of the RAG chatbot:    *)
(* document_loader.py (loading, fingerprint), text_processor.py            *)
(* (chunking), vector_store.py (build / save / load / exists /             *)
(* get_or_build) and Chatbot.initialize, which is the one caller of        *)
(* get_or_build.                                                           *)
(*                                                                         *)
(* Texts and file contents are sequences of characters.  The source        *)
(* folder and the vector_store directory are the file system; the          *)
(* environment edits the source folder and may delete persisted files.     *)
(***************************************************************************)
EXTENDS Integers, Sequences, FiniteSets, TLC

(***************************************************************************)
(* Bounds of the model.                                                    *)
(***************************************************************************)
\* number of faults explored: saves that fail and persisted files deleted
MaxFaults == 1

(***************************************************************************)
(* Program constants (config.py).                                          *)
(***************************************************************************)
CHUNK_SIZE == 200
CHUNK_OVERLAP == 50

(***************************************************************************)
(* The file system.                                                        *)
(***************************************************************************)
\* names that may appear directly inside the data folder
Names == {"a.txt", "b.txt", "n.md"}

\* folder_path.glob("*.txt") keeps the names with the .txt extension
IsTxt(n) == n \in {"a.txt", "b.txt"}

\* position of a name in the order sorted() puts Path objects in
NameRank(n) == CASE n = "a.txt" -> 1 [] n = "b.txt" -> 2 [] OTHER -> 3

\* byte contents the environment writes into source files
Blank == <<" ">>
One == <<"x">>
Two == <<"x", " ", "y", " ">>
Contents == {Blank, One, Two}

NoFile == [present |-> FALSE, readable |-> FALSE, bytes |-> <<>>]
File(b, r) == [present |-> TRUE, readable |-> r, bytes |-> b]

\* the four persisted artifacts, in the order save() writes them
Artifacts == <<"index", "chunks", "metadata", "hash">>
ArtifactNames == {Artifacts[i] : i \in 1..Len(Artifacts)}

\* the position of an artifact in the order save() writes them
Position(a) == CHOOSE j \in 1..Len(Artifacts) : Artifacts[j] = a

\* a persisted file: absent, truncated by a write that failed ("corrupt"),
\* or holding a value; sid tells which save wrote (or truncated) the file
Absent == [st |-> "absent", sid |-> 0, val |-> <<>>]
Corrupt(s) == [st |-> "corrupt", sid |-> s, val |-> <<>>]
Stored(s, v) == [st |-> "ok", sid |-> s, val |-> v]

VARIABLES
    folderExists,   \* DATA_FOLDER exists
    files,          \* Names -> file state: the content of DATA_FOLDER
    disk,           \* artifact name -> persisted file in VECTOR_STORE_DIR
    chatbot,        \* Chatbot.index / all_chunks / chunk_metadata of the
                    \* run that last started
    result,         \* what the initialize call just made did (observation)
    persisted,      \* the data folder as the last complete save saw it
                    \* (observation)
    faults,         \* number of failed saves and deleted artifacts so far
    ck,             \* a call of chunk_text: its arguments, locals and position
    pd,             \* a call of process_documents_for_chunking
    rag,            \* a RAGEngine with the store it is asked about
    lc,             \* a call of load_documents_from_folder
    app,            \* the Flask app: its global chatbot and the requests
                    \* it is serving
    run             \* a call of Chatbot.initialize followed step by step

vars == <<folderExists, files, disk, chatbot, result, persisted, faults,
          ck, pd, rag, lc, app, run>>

\* no call of chunk_text, no call of process_documents_for_chunking, no
\* RAGEngine under observation
CkIdle == [pc |-> "idle"]
PdIdle == [pc |-> "idle"]
RagIdle == [pc |-> "idle"]

\* no call of load_documents_from_folder, no Flask app, no call of
\* Chatbot.initialize followed step by step
LcIdle == [pc |-> "idle"]
AppIdle == [pc |-> "idle"]
RunIdle == [pc |-> "idle"]

(***************************************************************************)
(* Sequences.                                                              *)
(***************************************************************************)
RECURSIVE SeqOfSet(_)
\* the sequences listing every element of a finite set exactly once
SeqOfSet(S) ==
    IF S = {} THEN {<<>>}
    ELSE UNION {{<<x>> \o s : s \in SeqOfSet(S \ {x})} : x \in S}

RECURSIVE Insert(_, _)
Insert(n, s) ==
    IF s = <<>> THEN <<n>>
    ELSE IF NameRank(n) <= NameRank(Head(s)) THEN <<n>> \o s
    ELSE <<Head(s)>> \o Insert(n, Tail(s))

RECURSIVE Sorted(_)
\* sorted(paths)
Sorted(s) == IF s = <<>> THEN <<>> ELSE Insert(Head(s), Sorted(Tail(s)))

\* a listing the directory may yield for glob("*.txt"): the .txt files present,
\* in any order
Listings(fs) == SeqOfSet({n \in Names : IsTxt(n) /\ fs[n].present})

(***************************************************************************)
(* Strings.                                                                *)
(***************************************************************************)
IsSpace(c) == c = " "

RECURSIVE LStrip(_)
LStrip(t) == IF t # <<>> /\ IsSpace(Head(t)) THEN LStrip(Tail(t)) ELSE t

RECURSIVE RStrip(_)
RStrip(t) ==
    IF t # <<>> /\ IsSpace(t[Len(t)]) THEN RStrip(SubSeq(t, 1, Len(t) - 1)) ELSE t

\* str.strip()
Strip(t) == LStrip(RStrip(t))

RECURSIVE SplitFrom(_, _)
\* str.split(): the maximal runs of non-space characters; cur is the word
\* being read
SplitFrom(t, cur) ==
    IF t = <<>> THEN (IF cur = <<>> THEN <<>> ELSE <<cur>>)
    ELSE IF IsSpace(Head(t))
         THEN (IF cur = <<>> THEN <<>> ELSE <<cur>>) \o SplitFrom(Tail(t), <<>>)
         ELSE SplitFrom(Tail(t), Append(cur, Head(t)))

Split(t) == SplitFrom(t, <<>>)

RECURSIVE Join(_, _)
\* sep.join(parts)
Join(sep, parts) ==
    IF parts = <<>> THEN <<>>
    ELSE IF Len(parts) = 1 THEN parts[1]
    ELSE parts[1] \o sep \o Join(sep, Tail(parts))

\* words[start:end] with a 0-based start and an exclusive end, clipped to
\* the list as Python slices are; a negative bound counts from the end
Slice(s, start, end) ==
    LET from == IF start >= 0 THEN start
                ELSE IF Len(s) + start > 0 THEN Len(s) + start ELSE 0
        upto == IF end >= 0 THEN end
                ELSE IF Len(s) + end > 0 THEN Len(s) + end ELSE 0
    IN  SubSeq(s, from + 1, IF upto < Len(s) THEN upto ELSE Len(s))

(***************************************************************************)
(* External collaborators.                                                 *)
(***************************************************************************)
\* hashlib.md5(data).hexdigest(), taken as collision-free: the digest names
\* its input
md5(data) == <<"md5", data>>

\* SentenceTransformer.encode on one text: a fixed vector per text (here an
\* integer in 0..4), the same at every call
Embed(text) == Len(text) % 5

RECURSIVE MapEmbed(_)
\* SentenceTransformer.encode on a list of texts: one vector per text, in
\* the order given
MapEmbed(texts) ==
    IF texts = <<>> THEN <<>> ELSE <<Embed(Head(texts))>> \o MapEmbed(Tail(texts))

\* open(path, "r", encoding="utf-8").read() raises on a byte that is not UTF-8
Decodable(bytes) == \A i \in 1..Len(bytes) : bytes[i] # "0xFF"

(***************************************************************************)
(* document_loader.py                                                      *)
(***************************************************************************)
None == <<>>

RECURSIVE LoadLoop(_, _, _, _)
\* a loop that stops at the first file it cannot load
LoadLoopStopsAtBadFile(fs, txt_files, documents, metadata) ==
    IF txt_files = <<>> THEN [documents |-> documents, metadata |-> metadata]
    ELSE LET f == fs[Head(txt_files)]
             content == Strip(f.bytes)
         IN  IF f.readable /\ Decodable(f.bytes) /\ content # <<>>
             THEN LoadLoop(fs, Tail(txt_files),
                           Append(documents, content),
                           Append(metadata, [source_file |-> Head(txt_files)]))
             ELSE [documents |-> documents, metadata |-> metadata]

\* the for loop of load_documents_from_folder over txt_files
LoadLoop(fs, txt_files, documents, metadata) ==
    IF txt_files = <<>> THEN [documents |-> documents, metadata |-> metadata]
    ELSE LET f == fs[Head(txt_files)]
             content == Strip(f.bytes)
         IN  IF f.readable /\ Decodable(f.bytes) /\ content # <<>>
             THEN LoadLoop(fs, Tail(txt_files),
                           Append(documents, content),
                           Append(metadata, [source_file |-> Head(txt_files)]))
             ELSE LoadLoop(fs, Tail(txt_files), documents, metadata)

\* a loader that raises for a missing folder only and returns no document
\* for a folder with no .txt file
LoadEmptyFolderAsNothing(fexists, fs, listing) ==
    IF ~fexists
    THEN [raised |-> TRUE, documents |-> <<>>, metadata |-> <<>>]
    ELSE LET r == LoadLoop(fs, listing, <<>>, <<>>)
         IN  [raised |-> FALSE, documents |-> r.documents, metadata |-> r.metadata]

\* load_documents_from_folder(folder_path); listing is what glob yields
load_documents_from_folder(fexists, fs, listing) ==
    IF ~fexists \/ listing = <<>>
    THEN [raised |-> TRUE, documents |-> <<>>, metadata |-> <<>>]
    ELSE LET r == LoadLoop(fs, listing, <<>>, <<>>)
         IN  [raised |-> FALSE, documents |-> r.documents, metadata |-> r.metadata]

RECURSIVE HashLoopNamesOnly(_, _, _)
\* a fingerprint loop that digests the file's name where it should digest
\* the bytes read
HashLoopNamesOnly(fs, txt_files, file_hashes) ==
    IF txt_files = <<>> THEN file_hashes
    ELSE LET n == Head(txt_files)
         IN  IF fs[n].readable
             THEN HashLoopNamesOnly(fs, Tail(txt_files),
                                    Append(file_hashes, <<n, ":", md5(<<n>>)>>))
             ELSE HashLoopNamesOnly(fs, Tail(txt_files), file_hashes)

RECURSIVE HashLoop(_, _, _)
\* the for loop of calculate_files_hash: one "name:digest" entry per file
\* that can be read
HashLoop(fs, txt_files, file_hashes) ==
    IF txt_files = <<>> THEN file_hashes
    ELSE LET n == Head(txt_files)
         IN  IF fs[n].readable
             THEN HashLoop(fs, Tail(txt_files),
                           Append(file_hashes, <<n, ":", md5(fs[n].bytes)>>))
             ELSE HashLoop(fs, Tail(txt_files), file_hashes)

\* a fingerprint that iterates the files in the order glob yields them
HashOrderAsListed(listing) == listing

\* the listing as calculate_files_hash iterates it: sorted(glob("*.txt"))
HashOrder(listing) == Sorted(listing)

\* calculate_files_hash(folder_path); listing is what glob yields
calculate_files_hash(fexists, fs, listing) ==
    IF ~fexists THEN None
    ELSE LET file_hashes == HashLoop(fs, HashOrder(listing), <<>>)
         IN  IF file_hashes = <<>> THEN None
             ELSE md5(Join(<<"|">>, file_hashes))

(***************************************************************************)
(* text_processor.py                                                       *)
(***************************************************************************)
RECURSIVE ChunkLoop(_, _, _, _, _)
\* the while loop of chunk_text
ChunkLoop(words, start, chunks, chunk_size, overlap) ==
    IF start < Len(words)
    THEN LET end == start + chunk_size
             chunk == Join(<<" ">>, Slice(words, start, end))
             chunks2 == Append(chunks, chunk)
             start2 == end - overlap
         IN  IF start2 >= Len(words) THEN chunks2
             ELSE ChunkLoop(words, start2, chunks2, chunk_size, overlap)
    ELSE chunks

chunk_text(text, chunk_size, overlap) ==
    ChunkLoop(Split(text), 0, <<>>, chunk_size, overlap)

RECURSIVE ProcessLoopOneMetadata(_, _, _, _, _, _)
\* a loop that appends a document's metadata once where it should append it
\* once per chunk
ProcessLoopOneMetadata(documents, metadata, chunk_size, overlap, all_chunks, chunk_metadata) ==
    IF documents = <<>> \/ metadata = <<>>
    THEN [chunks |-> all_chunks, chunk_metadata |-> chunk_metadata]
    ELSE LET chunks == chunk_text(Head(documents), chunk_size, overlap)
         IN  ProcessLoopOneMetadata(Tail(documents), Tail(metadata), chunk_size,
                                    overlap, all_chunks \o chunks,
                                    Append(chunk_metadata, Head(metadata)))

RECURSIVE ProcessLoop(_, _, _, _, _, _)
\* the for loop of process_documents_for_chunking over zip(documents, metadata)
ProcessLoop(documents, metadata, chunk_size, overlap, all_chunks, chunk_metadata) ==
    IF documents = <<>> \/ metadata = <<>>
    THEN [chunks |-> all_chunks, chunk_metadata |-> chunk_metadata]
    ELSE LET chunks == chunk_text(Head(documents), chunk_size, overlap)
         IN  ProcessLoop(Tail(documents), Tail(metadata), chunk_size, overlap,
                         all_chunks \o chunks,
                         chunk_metadata \o [i \in 1..Len(chunks) |-> Head(metadata)])

process_documents_for_chunking(documents, metadata, chunk_size, overlap) ==
    ProcessLoop(documents, metadata, chunk_size, overlap, <<>>, <<>>)

(***************************************************************************)
(* vector_store.py                                                         *)
(***************************************************************************)
\* VectorStore.build: chunk, embed every chunk, add the vectors to a flat
\* index.  The index is the sequence of its vectors; with no chunk at all
\* encode returns an array with no second dimension and shape[1] raises.
build(documents, metadata) ==
    LET p == process_documents_for_chunking(documents, metadata,
                                            CHUNK_SIZE, CHUNK_OVERLAP)
        embeddings == MapEmbed(p.chunks)
    IN  IF p.chunks = <<>>
        THEN [raised |-> TRUE, index |-> <<>>, chunks |-> <<>>,
              chunk_metadata |-> <<>>]
        ELSE [raised |-> FALSE, index |-> embeddings, chunks |-> p.chunks,
              chunk_metadata |-> p.chunk_metadata]

\* a save() that writes the digest of nothing where it should write the
\* fingerprint it was given
SaveValueWrongHash(i, index, chunks, metadata, files_hash) ==
    CASE i = 1 -> index [] i = 2 -> chunks [] i = 3 -> metadata [] OTHER -> md5(<<>>)

\* the value save() writes into artifact number i
SaveValue(i, index, chunks, metadata, files_hash) ==
    CASE i = 1 -> index [] i = 2 -> chunks [] i = 3 -> metadata [] OTHER -> files_hash

\* a save() that reports success whatever happened
SaveReturnTrue(done) == TRUE

\* True when save() reports success
SaveReturn(done) == done = Len(Artifacts)

\* a save that writes the fingerprint whatever becomes of the other writes
SaveFingerprintAnyway(d, index, chunks, metadata, files_hash, sid, done, trunc) ==
    [disk |->
        [a \in DOMAIN d |->
            LET i == Position(a)
            IN  IF i <= done \/ a = "hash"
                THEN Stored(sid, SaveValue(i, index, chunks, metadata, files_hash))
                ELSE IF i = done + 1 /\ trunc THEN Corrupt(sid)
                ELSE d[a]],
     ok |-> SaveReturn(done)]

\* VectorStore.save, its writes tagged sid.  The first `done` writes succeed, in
\* the order index, chunks, metadata, hash; with done < 4 the next write
\* raises, either before the file was opened for writing (the old file
\* stays) or after it was truncated (trunc), and the except clause ends the
\* save with no further write.
save(d, index, chunks, metadata, files_hash, sid, done, trunc) ==
    [disk |->
        [a \in DOMAIN d |->
            LET i == Position(a)
            IN  IF i <= done
                THEN Stored(sid, SaveValue(i, index, chunks, metadata, files_hash))
                ELSE IF i = done + 1 /\ trunc THEN Corrupt(sid)
                ELSE d[a]],
     ok |-> SaveReturn(done)]

\* a load() that raises on no file: it returns what the files hold, nothing
\* for a truncated one
LoadWhatIsThere(d) ==
    [ok |-> TRUE, index |-> d["index"].val, chunks |-> d["chunks"].val,
     chunk_metadata |-> d["metadata"].val]

\* a load() that finds nothing it can read, whatever the files hold
LoadAlwaysFails(d) ==
    [ok |-> FALSE, index |-> <<>>, chunks |-> <<>>, chunk_metadata |-> <<>>]

\* VectorStore.load: reading a file that is missing or truncated raises, and
\* the except clause returns None (ok = FALSE)
load(d) ==
    IF \A a \in {"index", "chunks", "metadata"} : d[a].st = "ok"
    THEN [ok |-> TRUE, index |-> d["index"].val, chunks |-> d["chunks"].val,
          chunk_metadata |-> d["metadata"].val]
    ELSE [ok |-> FALSE, index |-> <<>>, chunks |-> <<>>, chunk_metadata |-> <<>>]

\* an exists() that does not compare the fingerprints
HashMatchesAlways(current_hash, hashfile) == TRUE

\* the comparison at the end of exists(): the text read from the hash file,
\* stripped, against the current hash.  A hex digest holds no white space, so
\* strip() returns it whole; a truncated file holds less than a digest.
HashMatches(current_hash, hashfile) ==
    hashfile.st = "ok" /\ current_hash = hashfile.val

\* an exists() that asks for any of the four files where it should ask for
\* all of them
ExistsAny(d, fexists, fs, listing) ==
    IF ~(\E i \in 1..Len(Artifacts) : d[Artifacts[i]].st # "absent") THEN FALSE
    ELSE LET current_hash == calculate_files_hash(fexists, fs, listing)
         IN  IF current_hash = None THEN FALSE
             ELSE HashMatches(current_hash, d["hash"])

\* VectorStore.exists(folder_path)
exists(d, fexists, fs, listing) ==
    IF ~(\A i \in 1..Len(Artifacts) : d[Artifacts[i]].st # "absent") THEN FALSE
    ELSE LET current_hash == calculate_files_hash(fexists, fs, listing)
         IN  IF current_hash = None THEN FALSE
             ELSE HashMatches(current_hash, d["hash"])

\* VectorStore.get_or_build(documents, metadata, folder_path); sid tags the
\* writes of its save.  l2 and l3 are the listings glob yields to the two
\* calculate_files_hash calls; done and trunc are the outcome of the save.
\* path: "load" (returned the persisted triple), "build" (returned the
\* triple it built) or "buildraise" (build raised).
get_or_build(documents, metadata, d, fexists, fs, l2, l3, sid, done, trunc) ==
    LET ex == exists(d, fexists, fs, l2)
        ld == load(d)
        b == build(documents, metadata)
        files_hash == calculate_files_hash(fexists, fs, l3)
        sv == save(d, b.index, b.chunks, b.chunk_metadata, files_hash,
                   sid, done, trunc)
    IN  IF ex /\ ld.ok
        THEN [path |-> "load", index |-> ld.index, chunks |-> ld.chunks,
              chunk_metadata |-> ld.chunk_metadata, disk |-> d,
              saved |-> "none", embeds |-> 0, existed |-> ex, loaded |-> ld.ok]
        ELSE IF b.raised
        THEN [path |-> "buildraise", index |-> <<>>, chunks |-> <<>>,
              chunk_metadata |-> <<>>, disk |-> d,
              saved |-> "none", embeds |-> 1, existed |-> ex,
              loaded |-> ex /\ ld.ok]
        ELSE [path |-> "build", index |-> b.index, chunks |-> b.chunks,
              chunk_metadata |-> b.chunk_metadata,
              disk |-> IF files_hash # None THEN sv.disk ELSE d,
              saved |-> IF files_hash = None THEN "skipped"
                        ELSE IF sv.ok THEN "ok" ELSE "failed",
              embeds |-> 1, existed |-> ex, loaded |-> ex /\ ld.ok]

(***************************************************************************)
(* State machine.                                                          *)
(***************************************************************************)
\* Chatbot.__init__: index, all_chunks and chunk_metadata are None
NotInitialized ==
    [initialized |-> FALSE, index |-> <<>>, all_chunks |-> <<>>,
     chunk_metadata |-> <<>>]

\* result, the observation of a run: path the run took ("notfound": the
\* loader raised), the return of save(), the number of Embedder calls, what
\* exists() and load() returned, the write of the save that failed (0: none),
\* the listing glob yielded, and three facts of the state the run started
\* in: prev ("built": the run just before, with no step of the environment
\* between, built and saved), stale (a store was persisted and the readable
\* source files differ from those it was built from), invalid ("absent": no
\* artifact is there; "partial": some are missing; "mismatch": all are
\* there and the stored fingerprint is not the current one; "no" otherwise)
NoResult ==
    [path |-> "none", saved |-> "none", embeds |-> 0, existed |-> FALSE,
     loaded |-> FALSE, failedAt |-> 0, listing |-> <<>>, prev |-> "none",
     stale |-> FALSE, invalid |-> "no"]

\* the states a source file can be in; a file that cannot be read is never
\* read, so one content stands for all
FileStates ==
    {NoFile} \cup {File(b, TRUE) : b \in Contents} \cup {File(One, FALSE)}

\* a file of the data folder that is no source file: it is there as long as
\* the folder is
Other(fexists) == IF fexists THEN File(One, TRUE) ELSE NoFile

NoSnapshot == [taken |-> FALSE, files |-> [n \in Names |-> NoFile]]

\* A tag for the next save: the least one carried by no persisted file that
\* the save leaves as it is, so that two files carry the same tag exactly
\* when the same save wrote them.
FreshSid(d, done, trunc) ==
    LET kept == {a \in ArtifactNames :
                    \/ Position(a) > done + 1
                    \/ Position(a) = done + 1 /\ ~trunc}
        used == {d[a].sid : a \in kept}
    IN  CHOOSE s \in 1..(Len(Artifacts) + 1) :
            s \notin used /\ \A t \in 1..(s - 1) : t \in used

\* The data folder is whatever the user left there; the vector_store
\* directory was just created by config.py; no Chatbot runs yet.
Init ==
    /\ folderExists \in BOOLEAN
    /\ files \in [Names -> FileStates]
    /\ \A n \in Names : IsTxt(n) /\ files[n].present => folderExists
    /\ \A n \in Names : ~IsTxt(n) => files[n] = Other(folderExists)
    /\ disk = [a \in ArtifactNames |-> Absent]
    /\ chatbot = NotInitialized
    /\ result = NoResult
    /\ persisted = NoSnapshot
    /\ faults = 0
    /\ ck = CkIdle
    /\ pd = PdIdle
    /\ rag = RagIdle
    /\ lc = LcIdle
    /\ app = AppIdle
    /\ run = RunIdle

\* The environment acts between runs of the program: the Chatbot of the run
\* that ended is gone.
BetweenRuns ==
    /\ chatbot' = NotInitialized
    /\ result' = NoResult
    /\ UNCHANGED <<ck, pd, rag, lc, app, run>>

\* the environment creates a source file in the data folder
AddFile(n, f) ==
    /\ folderExists
    /\ IsTxt(n)
    /\ ~files[n].present
    /\ f.present
    /\ files' = [files EXCEPT ![n] = f]
    /\ BetweenRuns
    /\ UNCHANGED <<folderExists, disk, persisted, faults>>

\* the environment deletes a source file of the data folder
RemoveFile(n) ==
    /\ IsTxt(n)
    /\ files[n].present
    /\ files' = [files EXCEPT ![n] = NoFile]
    /\ BetweenRuns
    /\ UNCHANGED <<folderExists, disk, persisted, faults>>

\* the environment rewrites a readable source file with other bytes
ModifyFile(n, b) ==
    /\ IsTxt(n)
    /\ files[n].present
    /\ files[n].readable
    /\ files[n].bytes # b
    /\ files' = [files EXCEPT ![n].bytes = b]
    /\ BetweenRuns
    /\ UNCHANGED <<folderExists, disk, persisted, faults>>

\* the environment removes the data folder with all it holds
RemoveFolder ==
    /\ folderExists
    /\ folderExists' = FALSE
    /\ files' = [n \in Names |-> NoFile]
    /\ BetweenRuns
    /\ UNCHANGED <<disk, persisted, faults>>

\* the environment creates the data folder, with no source file in it
CreateFolder ==
    /\ ~folderExists
    /\ folderExists' = TRUE
    /\ files' = [n \in Names |-> IF IsTxt(n) THEN NoFile ELSE Other(TRUE)]
    /\ BetweenRuns
    /\ UNCHANGED <<disk, persisted, faults>>

\* the environment deletes one file of the vector_store directory
DeleteArtifact(a) ==
    /\ faults < MaxFaults
    /\ disk[a].st # "absent"
    /\ disk' = [disk EXCEPT ![a] = Absent]
    /\ faults' = faults + 1
    /\ persisted' = IF a = "hash" THEN NoSnapshot ELSE persisted
    /\ BetweenRuns
    /\ UNCHANGED <<folderExists, files>>

\* some persisted artifact is missing
Missing(d) == \E a \in ArtifactNames : d[a].st = "absent"

\* the (name, bytes) pairs of the source files that can be read
Readable(fs) == {<<n, fs[n].bytes>> : n \in {m \in Names : IsTxt(m) /\ fs[m].readable}}

\* some source file is not as the last complete save saw it
SourceChanged == persisted.taken /\ \E n \in Names : IsTxt(n) /\ persisted.files[n] # files[n]

\* some source file that can be read is not as the last complete save saw it
ReadableChanged == persisted.taken /\ Readable(persisted.files) # Readable(files)

\* the persisted store is not valid for the data folder as it is
Invalid ==
    \/ Missing(disk)
    \/ \A l \in Listings(files) :
          ~HashMatches(calculate_files_hash(folderExists, files, l), disk["hash"])

\* The effects of Chatbot.initialize once the loader returned ld and
\* get_or_build returned g.  An exception (no folder, no .txt file, build on
\* no chunk) leaves the Chatbot fields None.
InitializeWith(l, done, ld, g) ==
    LET saves == ~ld.raised /\ g.saved \in {"ok", "failed"}
    IN  /\ IF saves THEN done = Len(Artifacts) \/ faults < MaxFaults
                    ELSE done = Len(Artifacts)
        /\ faults' = IF saves /\ done < Len(Artifacts) THEN faults + 1 ELSE faults
        /\ IF ld.raised
           THEN /\ result' = [NoResult EXCEPT !.path = "notfound", !.listing = l]
                /\ chatbot' = NotInitialized
                /\ UNCHANGED <<disk, persisted>>
           ELSE /\ result' = [path |-> g.path, saved |-> g.saved,
                              embeds |-> g.embeds, existed |-> g.existed,
                              loaded |-> g.loaded,
                              failedAt |-> IF saves /\ done < Len(Artifacts)
                                           THEN done + 1 ELSE 0,
                              listing |-> l,
                              prev |-> IF result.path = "build" /\ result.saved = "ok"
                                       THEN "built" ELSE "none",
                              stale |-> ReadableChanged,
                              invalid |->
                                  IF \A a \in ArtifactNames : disk[a].st = "absent"
                                  THEN "absent"
                                  ELSE IF Missing(disk) THEN "partial"
                                  ELSE IF Invalid THEN "mismatch" ELSE "no"]
                /\ disk' = g.disk
                /\ chatbot' =
                     IF g.path = "buildraise" THEN NotInitialized
                     ELSE [initialized |-> TRUE, index |-> g.index,
                           all_chunks |-> g.chunks,
                           chunk_metadata |-> g.chunk_metadata]
                /\ persisted' =
                     IF g.saved = "ok" THEN [taken |-> TRUE, files |-> files]
                     ELSE IF g.disk["hash"] # disk["hash"] THEN NoSnapshot
                     ELSE persisted
        /\ UNCHANGED <<folderExists, files, ck, pd, rag, lc, app, run>>

\* One run of the program up to the chat loop (main.py, app.py): Chatbot()
\* and Chatbot.initialize(DATA_FOLDER), which loads the documents and calls
\* get_or_build.  l is the listing glob yields during the call; done and
\* trunc are the outcome of the save (a save that completes truncates
\* nothing).
Initialize(l, done, trunc) ==
    /\ done = Len(Artifacts) => ~trunc
    /\ \E ld \in {load_documents_from_folder(folderExists, files, l)} :
         \E g \in {get_or_build(ld.documents, ld.metadata, disk, folderExists,
                                files, l, l, FreshSid(disk, done, trunc),
                                done, trunc)} :
            InitializeWith(l, done, ld, g)

Next ==
    \/ \E n \in Names, f \in FileStates : AddFile(n, f)
    \/ \E n \in Names : RemoveFile(n)
    \/ \E n \in Names, b \in Contents : ModifyFile(n, b)
    \/ RemoveFolder
    \/ CreateFolder
    \/ \E a \in ArtifactNames : DeleteArtifact(a)
    \/ \E l \in Listings(files), done \in 0..Len(Artifacts), trunc \in BOOLEAN :
            Initialize(l, done, trunc)

Spec == Init /\ [][Next]_vars

(***************************************************************************)
(* Properties.                                                             *)
(***************************************************************************)
\* the fingerprints calculate_files_hash can return for the data folder as
\* it is, one per listing glob may yield
CurrentHashes == {calculate_files_hash(folderExists, files, l) : l \in Listings(files)}

\* what build() returns for the documents the loader returns under listing l
BuiltFrom(l) ==
    LET ld == load_documents_from_folder(folderExists, files, l)
    IN  build(ld.documents, ld.metadata)

\* the Chatbot holds the triple t
Holds(t) ==
    /\ chatbot.initialized
    /\ chatbot.index = t.index
    /\ chatbot.all_chunks = t.chunks
    /\ chatbot.chunk_metadata = t.chunk_metadata

\* C1: a run that returned the persisted triple (load path) found a stored
\* fingerprint equal to the fingerprint of the data folder as it is at the
\* call: the load path is taken only when the two are equal.
C1_LoadOnlyOnMatchingFingerprint ==
    result.path = "load" =>
        /\ disk["hash"].st = "ok"
        /\ \A h \in CurrentHashes : h # None /\ h = disk["hash"].val

\* C1 witness: a run has taken the load path
C1_Witness == result.path = "load" /\ chatbot.initialized

\* C2: after any run that returned a triple, built or loaded, chunks, chunk
\* metadata and index have the same length.
C2_TripleAligned ==
    result.path \in {"load", "build"} =>
        /\ Len(chatbot.all_chunks) = Len(chatbot.chunk_metadata)
        /\ Len(chatbot.all_chunks) = Len(chatbot.index)

\* C3: of two successive runs on an unchanged data folder of which the first
\* built and persisted, the second loads the triple the first returned and
\* does not call the Embedder: the Embedder is called once in the two runs.
C3_SecondCallLoads ==
    [][(result.path = "build" /\ result.saved = "ok" /\ result'.path # "none")
        => /\ result.embeds = 1
           /\ result'.path = "load"
           /\ result'.embeds = 0
           /\ result.embeds + result'.embeds = 1
           /\ chatbot' = chatbot]_vars

\* C3 witness: a run that loaded right after a run that built and saved
C3_Witness == result.prev = "built" /\ result.path = "load" /\ result.embeds = 0

\* this step is a run that leaves the Chatbot holding the triple build()
\* makes of the documents the loader reads from the data folder, which the
\* run leaves as it is
ReturnsBuilt ==
    /\ UNCHANGED <<folderExists, files>>
    /\ \A l \in Listings(files) : result'.listing = l =>
          \A t \in {BuiltFrom(l)} :
              /\ ~t.raised
              /\ chatbot'.initialized
              /\ chatbot'.index = t.index
              /\ chatbot'.all_chunks = t.chunks
              /\ chatbot'.chunk_metadata = t.chunk_metadata

\* this step is a run in which get_or_build was called
GetOrBuildCalled == result'.path \notin {"none", "notfound"}

C5_WrittenAsUnit ==
    (\E l \in Listings(files) : exists(disk, folderExists, files, l))
        => \A a \in ArtifactNames : disk[a].st = "ok" /\ disk[a].sid = disk["hash"].sid

C7_LoadFailureFallsThrough ==
    [][(/\ result'.path # "none"
        /\ \E l \in Listings(files) : exists(disk, folderExists, files, l)
        /\ \E a \in {"index", "chunks", "metadata"} : disk[a].st = "corrupt")
        => /\ result'.existed
           /\ ~result'.loaded
           /\ result'.path = "build"
           /\ ReturnsBuilt]_vars

\* C7 witness: a run in which exists() accepted the store and load() failed
C7_Witness == result.existed /\ ~result.loaded /\ result.path = "build"

\* C8: when a write of the save fails after a build, save() returns False
\* and get_or_build returns the triple it built.
C8_SaveFailureIsSwallowed ==
    result.failedAt > 0 =>
        /\ result.saved = "failed"
        /\ result.path = "build"
        /\ Holds(BuiltFrom(result.listing))

\* C8 witness: a run whose save failed at the last write, that of the
\* fingerprint
C8_Witness == result.failedAt = Len(Artifacts) /\ chatbot.initialized

\* this step adds, removes or rewrites the one source file n
OneSourceFileChange(n) ==
    /\ IsTxt(n)
    /\ folderExists /\ folderExists'
    /\ files'[n] # files[n]
    /\ \A m \in Names \ {n} : files'[m] = files[m]

\* the file n can be read before the step, if it is there, and after it, if
\* it is there
ReadableAcross(n) ==
    /\ files[n].present => files[n].readable
    /\ files'[n].present => files'[n].readable

\* C9 as claimed: adding, removing or rewriting one source file changes the
\* fingerprint.
C9_AnyChangeChangesHash ==
    [][\A n \in Names : OneSourceFileChange(n)
        => \A h \in CurrentHashes : h \notin CurrentHashes']_vars

\* C9 amended: adding or removing a source file that can be read, or
\* rewriting one with other bytes, changes the fingerprint.
C9_ReadableChangeChangesHash ==
    [][\A n \in Names : (OneSourceFileChange(n) /\ ReadableAcross(n))
        => \A h \in CurrentHashes : h \notin CurrentHashes']_vars

\* C9 witness: the data folder is one readable source file away from the
\* folder a store was persisted for, and the stored fingerprint is not the
\* current one
C9_Witness ==
    /\ persisted.taken /\ disk["hash"].st = "ok"
    /\ \E n \in Names :
          /\ IsTxt(n) /\ persisted.files[n] # files[n]
          /\ persisted.files[n].present => persisted.files[n].readable
          /\ files[n].present => files[n].readable
          /\ \A m \in Names \ {n} : persisted.files[m] = files[m]
    /\ disk["hash"].val \notin CurrentHashes

\* C10: the fingerprint does not depend on the order in which the directory
\* lists the files: every listing of the same folder gives the same digest.
C10_HashIndependentOfListing == Cardinality(CurrentHashes) = 1

\* C10 witness: two source files are there, so that listings differ, and the
\* fingerprint is a digest
C10_Witness == Cardinality(Listings(files)) > 1 /\ None \notin CurrentHashes

(***************************************************************************)
(* chunk_text, statement by statement.                                     *)
(***************************************************************************)
\* the longest generated text, in words
MaxWords == 5
\* the largest chunk_size and overlap a call is made with
MaxChunkSize == 4
\* the number of chunks after which a chunking loop is no longer followed
MaxChunks == 10

\* "The quick brown fox jumps over the lazy dog"
FoxText ==
    <<"T", "h", "e", " ", "q", "u", "i", "c", "k", " ", "b", "r", "o",
      "w", "n", " ", "f", "o", "x", " ", "j", "u", "m", "p", "s", " ",
      "o", "v", "e", "r", " ", "t", "h", "e", " ", "l", "a", "z", "y",
      " ", "d", "o", "g">>

Letters == <<"a", "b", "c", "d", "e", "f", "g">>

\* the text of n one-letter words, one space between two words
PlainText(n) == Join(<<" ">>, [i \in 1..n |-> <<Letters[i]>>])

\* the same words with whitespace before, after and doubled between them
PaddedText(n) ==
    <<" ">> \o Join(<<" ", " ">>, [i \in 1..n |-> <<Letters[i]>>]) \o <<" ">>

\* the texts chunk_text is called with
ChunkTexts ==
    {FoxText} \cup {PlainText(n) : n \in 0..MaxWords}
              \cup {PaddedText(n) : n \in 0..MaxWords}

\* chunk_text(text, chunk_size, overlap) is called: line 20 has not run yet
ChunkCall(text, chunk_size, overlap) ==
    [pc |-> "call", text |-> text, chunk_size |-> chunk_size,
     overlap |-> overlap, words |-> <<>>, chunks |-> <<>>, start |-> 0]

\* start = end - overlap, with a loop that adds nothing to the start it had
\* reached where the overlap should be subtracted
NextStartNoOverlap(end, overlap) == end

\* start = end - overlap
NextStart(end, overlap) == end - overlap

\* a loop that stops as soon as a chunk reached the last word
ContinueWhileEndInside(start, end, words) == end < Len(words)

\* the while test and the break test of chunk_text after start was moved:
\* the loop goes on when the new start is a position of the list
Continue(start, end, words) == start < Len(words)

ChunkInit ==
    /\ ck \in {ChunkCall(t, c, o) :
                  t \in ChunkTexts, c \in 1..MaxChunkSize, o \in 0..MaxChunkSize}
    /\ folderExists = FALSE
    /\ files = [n \in Names |-> NoFile]
    /\ disk = [a \in ArtifactNames |-> Absent]
    /\ chatbot = NotInitialized
    /\ result = NoResult
    /\ persisted = NoSnapshot
    /\ faults = 0
    /\ pd = PdIdle
    /\ rag = RagIdle
    /\ lc = LcIdle
    /\ app = AppIdle
    /\ run = RunIdle

\* lines 20-24: words = text.split(); chunks = []; start = 0; the first
\* test of the while condition
ChunkBegin ==
    /\ ck.pc = "call"
    /\ ck' = [ck EXCEPT !.words = Split(ck.text),
                        !.pc = IF 0 < Len(Split(ck.text)) THEN "loop" ELSE "done"]
    /\ UNCHANGED <<folderExists, files, disk, chatbot, result, persisted,
                   faults, pd, rag, lc, app, run>>

\* lines 25-30: one pass of the loop body, the break test and the while test
ChunkIterate ==
    /\ ck.pc = "loop"
    /\ Len(ck.chunks) < MaxChunks
    /\ LET end == ck.start + ck.chunk_size
           chunk == Join(<<" ">>, Slice(ck.words, ck.start, end))
           start == NextStart(end, ck.overlap)
       IN  ck' = [ck EXCEPT !.chunks = Append(ck.chunks, chunk),
                            !.start = start,
                            !.pc = IF Continue(start, end, ck.words)
                                   THEN "loop" ELSE "done"]
    /\ UNCHANGED <<folderExists, files, disk, chatbot, result, persisted,
                   faults, pd, rag, lc, app, run>>

ChunkNext == ChunkBegin \/ ChunkIterate

ChunkSpec == ChunkInit /\ [][ChunkNext]_vars

\* a call that was made runs on: the interpreter executes the next
\* statement of chunk_text as long as there is one
ChunkFairSpec == ChunkSpec /\ WF_vars(ChunkNext)

\* the call of chunk_text has returned
ChunkDone == ck.pc = "done"

\* the words of a chunk
Words(chunk) == Split(chunk)

\* words i..j of the fox text, one space between two words
FoxPhrase(i, j) == Join(<<" ">>, SubSeq(Split(FoxText), i, j))

\* the call of the example: the fox text, size 4, overlap 2
FoxCall == ck.text = FoxText /\ ck.chunk_size = 4 /\ ck.overlap = 2

\* C11 as claimed: chunk_text on the fox text with size 4 and overlap 2
\* returns "The quick brown fox", "fox jumps over the", "the lazy dog".
C11_FoxThreeChunks ==
    (ChunkDone /\ FoxCall)
        => ck.chunks = <<FoxPhrase(1, 4), FoxPhrase(4, 7), FoxPhrase(7, 9)>>

\* C11 amended: chunk_text on the fox text with size 4 and overlap 2 returns
\* the five chunks "The quick brown fox", "brown fox jumps over",
\* "jumps over the lazy", "the lazy dog", "dog".
C11_FoxFiveChunks ==
    (ChunkDone /\ FoxCall)
        => ck.chunks = <<FoxPhrase(1, 4), FoxPhrase(3, 6), FoxPhrase(5, 8),
                         FoxPhrase(7, 9), FoxPhrase(9, 9)>>

\* C11 witness: the call of the example has returned
C11_Witness == ChunkDone /\ FoxCall /\ Len(ck.chunks) > 0

\* C12: a text of N words, 1 <= N <= chunk_size (overlap < chunk_size),
\* gives exactly one chunk, which holds all the words of the text.  (A text
\* of no word gives no chunk at all.)
C12_ShortTextOneChunk ==
    (/\ ChunkDone /\ ck.overlap < ck.chunk_size
     /\ 1 <= Len(ck.words) /\ Len(ck.words) <= ck.chunk_size)
        => /\ Len(ck.chunks) = 1
           /\ Words(ck.chunks[1]) = ck.words

RECURSIVE Reconstruct(_, _)
\* the words of the first chunk followed by the words each later chunk adds
\* after the overlap words it shares with the chunk before it
Reconstruct(chunks, overlap) ==
    IF chunks = <<>> THEN <<>>
    ELSE IF Len(chunks) = 1 THEN Words(chunks[1])
    ELSE LET front == SubSeq(chunks, 1, Len(chunks) - 1)
             last == Words(chunks[Len(chunks)])
             o == IF Len(last) < overlap THEN Len(last) ELSE overlap
         IN  Reconstruct(front, overlap) \o SubSeq(last, o + 1, Len(last))

\* chunks k and k+1 of n share exactly overlap words, the last of one being
\* the first of the next; the final chunk may be shorter than overlap words
\* and is then shared whole
SharesOverlap(chunks, k, overlap) ==
    LET a == Words(chunks[k])
        b == Words(chunks[k + 1])
        o == IF k + 1 = Len(chunks) /\ Len(b) < overlap THEN Len(b) ELSE overlap
    IN  /\ Len(a) >= o
        /\ Len(b) >= o
        /\ SubSeq(a, Len(a) - o + 1, Len(a)) = SubSeq(b, 1, o)

\* C13: for 0 <= overlap < chunk_size the chunks in order cover every word
\* of the document in its order, and two consecutive chunks share exactly
\* overlap words, the final chunk possibly being shorter.
C13_CoverageAndOverlap ==
    (ChunkDone /\ ck.overlap < ck.chunk_size)
        => /\ Reconstruct(ck.chunks, ck.overlap) = ck.words
           /\ \A k \in 1..(Len(ck.chunks) - 1) :
                 SharesOverlap(ck.chunks, k, ck.overlap)

\* C14: with overlap >= chunk_size the chunking loop is never entered.
C14_BadParametersNeverLoop ==
    ck.pc = "loop" => ck.overlap < ck.chunk_size

(***************************************************************************)
(* process_documents_for_chunking, called on its own.                      *)
(***************************************************************************)
\* the largest number of documents in a call
MaxDocs == 2
\* the longest document, in words
MaxDocWords == 3
\* the largest chunk_size of a call
MaxDocChunkSize == 3

\* the document lists of a call: the loader's documents are texts, here of
\* 0..MaxDocWords words
DocLists ==
    UNION {[1..n -> {PlainText(w) : w \in 0..MaxDocWords}] : n \in 0..MaxDocs}

\* the metadata the loader pairs with document i: a file name of its own
DocMetadata(n) ==
    [i \in 1..n |-> [source_file |-> <<"doc", i, ".txt">>]]

ProcInit ==
    /\ pd \in {[pc |-> "call", documents |-> d, metadata |-> DocMetadata(Len(d)),
                chunk_size |-> c, overlap |-> o,
                all_chunks |-> <<>>, chunk_metadata |-> <<>>] :
                  d \in DocLists,
                  c \in 1..MaxDocChunkSize, o \in 0..(MaxDocChunkSize - 1)}
    /\ pd.overlap < pd.chunk_size
    /\ folderExists = FALSE
    /\ files = [n \in Names |-> NoFile]
    /\ disk = [a \in ArtifactNames |-> Absent]
    /\ chatbot = NotInitialized
    /\ result = NoResult
    /\ persisted = NoSnapshot
    /\ faults = 0
    /\ ck = CkIdle
    /\ rag = RagIdle
    /\ lc = LcIdle
    /\ app = AppIdle
    /\ run = RunIdle

\* the call runs and returns (all_chunks, chunk_metadata)
ProcessDocuments ==
    /\ pd.pc = "call"
    /\ \E r \in {process_documents_for_chunking(pd.documents, pd.metadata,
                                                pd.chunk_size, pd.overlap)} :
          pd' = [pd EXCEPT !.pc = "done", !.all_chunks = r.chunks,
                           !.chunk_metadata = r.chunk_metadata]
    /\ UNCHANGED <<folderExists, files, disk, chatbot, result, persisted,
                   faults, ck, rag, lc, app, run>>

ProcNext == ProcessDocuments

ProcSpec == ProcInit /\ [][ProcNext]_vars

\* the chunks of document i of the call
DocChunks(i) == chunk_text(pd.documents[i], pd.chunk_size, pd.overlap)

RECURSIVE Offset(_)
\* the number of chunks of the documents before document i
Offset(i) == IF i = 1 THEN 0 ELSE Offset(i - 1) + Len(DocChunks(i - 1))

\* C15: chunks and chunk_metadata have the same length; the chunks of each
\* document stand together, in document order, each at the position where
\* chunk_metadata holds the metadata of its document; a document of at least
\* one word has a chunk.
C15_ChunksAlignedWithMetadata ==
    pd.pc = "done" =>
        LET n == Len(pd.documents)
        IN  /\ Len(pd.all_chunks) = Len(pd.chunk_metadata)
            /\ Len(pd.all_chunks) = Offset(n + 1)
            /\ \A i \in 1..n : \A j \in 1..Len(DocChunks(i)) :
                  /\ pd.all_chunks[Offset(i) + j] = DocChunks(i)[j]
                  /\ pd.chunk_metadata[Offset(i) + j] = pd.metadata[i]
            /\ \A i \in 1..n : Split(pd.documents[i]) # <<>> =>
                  \E k \in 1..Len(pd.chunk_metadata) :
                      pd.chunk_metadata[k] = pd.metadata[i]

\* C15 witness: a call with two documents, the first cut into several
\* chunks, has returned
C15_Witness ==
    /\ pd.pc = "done"
    /\ Len(pd.documents) = 2
    /\ Len(DocChunks(1)) > 1
    /\ Len(DocChunks(2)) > 0

(***************************************************************************)
(* rag_engine.py: retrieval.                                               *)
(***************************************************************************)
TOP_K_RESULTS == 5
CONVERSATION_HISTORY_LIMIT == 10
CONVERSATION_CONTEXT_WINDOW == 3

\* CONTEXT_RELEVANCE_THRESHOLD = 1.5, as the fraction 3 / 2
ThresholdNumerator == 3
ThresholdDenominator == 2

\* the distance faiss reports where it has no neighbour to report (the
\* largest float32, here a number above every distance between two vectors)
FLT_MAX == 1000

\* squared L2 distance between two vectors (IndexFlatL2)
Dist(q, v) == (q - v) * (q - v)

RECURSIVE NearestFirst(_, _, _, _)
\* the orders in which a flat index may report the m nearest of the
\* positions left (0-based), nearest first; equal distances come in any order
NearestFirst(index, q, left, m) ==
    IF m = 0 THEN {<<>>}
    ELSE UNION {{<<i>> \o r : r \in NearestFirst(index, q, left \ {i}, m - 1)} :
                  i \in {j \in left :
                           \A h \in left :
                               Dist(q, index[j + 1]) <= Dist(q, index[h + 1])}}

\* index.search(q_emb, top_k) on a flat L2 index: always k results, nearest
\* first; where the index holds fewer than k vectors the rest are the label
\* -1 with the distance FLT_MAX
Search(index, q, k) ==
    LET n == Len(index)
        m == IF k < n THEN k ELSE n
    IN  {[indices |-> labels \o [i \in 1..(k - m) |-> -1],
          distances |-> [i \in 1..m |-> Dist(q, index[labels[i] + 1])]
                            \o [i \in 1..(k - m) |-> FLT_MAX]] :
            labels \in NearestFirst(index, q, 0..(n - 1), m)}

\* list[i] does not raise IndexError
Indexable(list, i) == -Len(list) <= i /\ i < Len(list)

\* list[i] for a Python index: 0-based, a negative one counting from the end
At(list, i) == IF i >= 0 THEN list[i + 1] ELSE list[Len(list) + i + 1]

\* one entry of the context block: f"[Source: {source}]\n{chunk}"
ContextEntry(chunk, source) == <<"[Source: ", source, "]\n">> \o chunk

\* np.mean(distances[0]) if len(distances[0]) > 0 else float('inf'): the
\* mean is kept as sum and count
Mean(distances) ==
    IF Len(distances) > 0
    THEN [inf |-> FALSE, count |-> Len(distances),
          sum |-> LET Sum[i \in 0..Len(distances)] ==
                          IF i = 0 THEN 0 ELSE Sum[i - 1] + distances[i]
                  IN  Sum[Len(distances)]]
    ELSE [inf |-> TRUE, count |-> 0, sum |-> 0]

\* what _retrieve_context gives when it raises
RetrieveRaised ==
    [raised |-> TRUE, context |-> <<>>, avg_distance |-> Mean(<<>>),
     relevant_chunks |-> <<>>, relevant_sources |-> <<>>,
     indices |-> <<>>, distances |-> <<>>]

\* RAGEngine._retrieve_context after the question was embedded; found is
\* what index.search returned
retrieve_context(found, all_chunks, chunk_metadata) ==
    IF \E j \in 1..Len(found.indices) :
          \/ ~Indexable(all_chunks, found.indices[j])
          \/ ~Indexable(chunk_metadata, found.indices[j])
    THEN RetrieveRaised
    ELSE LET relevant_chunks ==
                 [j \in 1..Len(found.indices) |-> At(all_chunks, found.indices[j])]
             relevant_sources ==
                 [j \in 1..Len(found.indices) |->
                     At(chunk_metadata, found.indices[j]).source_file]
         IN  [raised |-> FALSE,
              context |-> Join(<<"\n\n---\n\n">>,
                               [j \in 1..Len(relevant_chunks) |->
                                   ContextEntry(relevant_chunks[j],
                                                relevant_sources[j])]),
              avg_distance |-> Mean(found.distances),
              relevant_chunks |-> relevant_chunks,
              relevant_sources |-> relevant_sources,
              indices |-> found.indices,
              distances |-> found.distances]

(***************************************************************************)
(* rag_engine.py: the engine, asked about one store.                       *)
(***************************************************************************)
\* the number of exchanges followed since the history was last cleared
MaxLog == 12

\* the number of exchanges since the last clear over which the question
\* varies; the later ones ask the same question
MaxVaried == 2

\* the questions asked: their embeddings differ
Questions == {<<"q">>, <<"q", "?">>}

\* the questions asked after n exchanges
QuestionsAfter(n) == IF n < MaxVaried THEN Questions ELSE {<<"q">>}

\* chunk i of a store (1-based): i letters, so that the chunks of a store
\* differ and their embeddings are spread
StoreChunk(i) == [j \in 1..i |-> Letters[((j - 1) % Len(Letters)) + 1]]

\* the store build() makes of n chunks, the first half cut from a.txt and
\* the rest from b.txt
StoreOf(n) ==
    LET chunks == [i \in 1..n |-> StoreChunk(i)]
    IN  [index |-> MapEmbed(chunks),
         all_chunks |-> chunks,
         chunk_metadata |->
             [i \in 1..n |-> [source_file |-> IF 2 * i <= n + 1 THEN "a.txt"
                                              ELSE "b.txt"]]]

\* the sizes of the stores asked about: none, fewer than top_k, top_k, more
StoreSizes == {0, 2, TOP_K_RESULTS, TOP_K_RESULTS + 1}

\* nothing was returned yet
NoReturn ==
    [kind |-> "none", error |-> FALSE, failed |-> "nothing", value |-> <<>>,
     retrieved |-> RetrieveRaised, prompt |-> <<>>]

\* RAGEngine.__init__: an empty conversation history.  log is the list of
\* the exchanges that succeeded since the history was last cleared, ret what
\* the last call returned or raised, with the collaborator that failed in
\* it (observations).
RagInit ==
    /\ rag \in {[pc |-> "ready", index |-> StoreOf(n).index,
                 all_chunks |-> StoreOf(n).all_chunks,
                 chunk_metadata |-> StoreOf(n).chunk_metadata,
                 conversation_history |-> <<>>, log |-> <<>>,
                 ret |-> NoReturn] : n \in StoreSizes}
    /\ folderExists = FALSE
    /\ files = [n \in Names |-> NoFile]
    /\ disk = [a \in ArtifactNames |-> Absent]
    /\ chatbot = NotInitialized
    /\ result = NoResult
    /\ persisted = NoSnapshot
    /\ faults = 0
    /\ ck = CkIdle
    /\ pd = PdIdle
    /\ lc = LcIdle
    /\ app = AppIdle
    /\ run = RunIdle

RECURSIVE ConversationEntries(_)
ConversationEntries(entries) ==
    IF entries = <<>> THEN <<>>
    ELSE <<"User: ", Head(entries).question, "\n",
           "Assistant: ", Head(entries).answer, "\n\n">>
         \o ConversationEntries(Tail(entries))

\* a context made of the whole history
ConversationContextOfAll(conversation_history) ==
    IF conversation_history = <<>> THEN <<>>
    ELSE <<"\n\nPrevious conversation:\n">>
         \o ConversationEntries(conversation_history)

\* RAGEngine._build_conversation_context
build_conversation_context(conversation_history) ==
    IF conversation_history = <<>> THEN <<>>
    ELSE <<"\n\nPrevious conversation:\n">>
         \o ConversationEntries(Slice(conversation_history,
                                      -CONVERSATION_CONTEXT_WINDOW,
                                      Len(conversation_history)))

\* a test that also holds at the threshold
LowRelevanceAtThreshold(avg_distance) ==
    \/ avg_distance.inf
    \/ ThresholdDenominator * avg_distance.sum
           >= ThresholdNumerator * avg_distance.count

\* avg_distance > CONTEXT_RELEVANCE_THRESHOLD
LowRelevance(avg_distance) ==
    \/ avg_distance.inf
    \/ ThresholdDenominator * avg_distance.sum
           > ThresholdNumerator * avg_distance.count

\* the full prompt of ask(), by its parts
FullPrompt(question, retrieved, conversation_history) ==
    [conversation_context |-> build_conversation_context(conversation_history),
     context |-> retrieved.context,
     context_relevance_note |-> LowRelevance(retrieved.avg_distance),
     question |-> question]

\* gemini_model.generate_content(full_prompt).text, when the call succeeds:
\* the reply to the n-th exchange is a reply of its own
Generate(prompt, n) == <<"reply", n, "to", prompt.question>>

\* make_response_natural(answer, question)
make_response_natural(answer, question) == <<"natural">> \o answer

\* the history is cut as soon as it reaches the limit
EvictAtLimit(history) ==
    IF Len(history) >= CONVERSATION_HISTORY_LIMIT THEN Tail(history) ELSE history

\* lines 197-198: if len(history) > CONVERSATION_HISTORY_LIMIT: pop(0)
Evict(history) ==
    IF Len(history) > CONVERSATION_HISTORY_LIMIT THEN Tail(history) ELSE history

\* lines 147-203 of ask(), once _retrieve_context returned
AskWith(question, genOk, retrieved) ==
    LET prompt == FullPrompt(question, retrieved, rag.conversation_history)
    IN  IF ~genOk
        THEN rag' = [rag EXCEPT !.ret =
                        [kind |-> "returned", error |-> TRUE,
                         failed |-> "generator",
                         value |-> <<"Error generating response: ", "e">>,
                         retrieved |-> retrieved, prompt |-> prompt]]
        ELSE LET answer == make_response_natural(Generate(prompt, Len(rag.log) + 1),
                                                   question)
                 entry == [question |-> question, answer |-> answer]
             IN  /\ Len(rag.log) < MaxLog
                 /\ rag' = [rag EXCEPT
                       !.conversation_history =
                           Evict(Append(rag.conversation_history, entry)),
                       !.log = Append(rag.log, entry),
                       !.ret = [kind |-> "returned", error |-> FALSE,
                                failed |-> "nothing",
                                value |-> answer,
                                retrieved |-> retrieved, prompt |-> prompt]]

\* what ask() leaves when the exception e of the collaborator who goes
\* through it
AskRaised(who, e) ==
    rag' = [rag EXCEPT !.ret = [NoReturn EXCEPT !.kind = "raised",
                                                !.failed = who, !.value = e]]

\* RAGEngine.ask(question, index, all_chunks, chunk_metadata).  embedOk:
\* the Embedder answers; genOk: the Answer Generator answers.
Ask(question, embedOk, genOk) ==
    /\ rag.pc = "ready"
    /\ ~embedOk => genOk
    /\ IF ~embedOk THEN AskRaised("embedder", <<"encode failed">>)
       ELSE \E found \in Search(rag.index, Embed(question), TOP_K_RESULTS) :
              \E retrieved \in {retrieve_context(found, rag.all_chunks,
                                                 rag.chunk_metadata)} :
                 IF retrieved.raised THEN genOk /\ AskRaised("retrieval", <<"IndexError">>)
                 ELSE AskWith(question, genOk, retrieved)
    /\ UNCHANGED <<folderExists, files, disk, chatbot, result, persisted,
                   faults, ck, pd, lc, app, run>>

\* what is recorded of a call of clear_history(): the number of exchanges
\* the history held when it was called (observation)
ClearReturn(history) ==
    [NoReturn EXCEPT !.kind = "cleared", !.value = <<Len(history)>>]

\* the oldest exchange only is dropped
ClearOldest ==
    /\ rag.pc = "ready"
    /\ rag' = [rag EXCEPT !.conversation_history =
                              Slice(rag.conversation_history, 1,
                                    Len(rag.conversation_history)),
                          !.log = <<>>,
                          !.ret = ClearReturn(rag.conversation_history)]
    /\ UNCHANGED <<folderExists, files, disk, chatbot, result, persisted,
                   faults, ck, pd, lc, app, run>>

\* RAGEngine.clear_history()
ClearHistory ==
    /\ rag.pc = "ready"
    /\ rag' = [rag EXCEPT !.conversation_history = <<>>, !.log = <<>>,
                          !.ret = ClearReturn(rag.conversation_history)]
    /\ UNCHANGED <<folderExists, files, disk, chatbot, result, persisted,
                   faults, ck, pd, lc, app, run>>

RagNext ==
    \/ \E q \in QuestionsAfter(Len(rag.log)), embedOk \in BOOLEAN,
          genOk \in BOOLEAN :
          Ask(q, embedOk, genOk)
    \/ ClearHistory

RagSpec == RagInit /\ [][RagNext]_vars

\* the last call of ask() got its context from _retrieve_context
Retrieved == rag.ret.kind = "returned"

\* the embedding of the question of the last call
QueryOf(ret) == Embed(ret.prompt.question)

\* C16: with fewer than top_k vectors in the index, retrieval returns
\* exactly index.size chunks, each of a real index position of its own, and
\* the score is the mean of those distances only.
C16_ClampedToIndexSize ==
    (Retrieved /\ Len(rag.index) < TOP_K_RESULTS) =>
        LET r == rag.ret.retrieved
            n == Len(rag.index)
        IN  /\ Len(r.relevant_chunks) = n
            /\ \A j \in 1..Len(r.indices) : r.indices[j] \in 0..(n - 1)
            /\ \A i, j \in 1..Len(r.indices) :
                  i # j => r.indices[i] # r.indices[j]
            /\ r.avg_distance.count = n
            /\ \A j \in 1..Len(r.distances) : r.distances[j] # FLT_MAX

\* C17: asked about an index of no chunk, with the Embedder answering,
\* retrieval gives an empty context and an infinite distance, and ask()
\* returns where it could raise.
C17_EmptyIndexAnswers ==
    (Len(rag.index) = 0 /\ rag.ret.kind \in {"returned", "raised"}
        /\ rag.ret.failed # "embedder")
        => /\ rag.ret.kind = "returned"
           /\ rag.ret.retrieved.context = <<>>
           /\ rag.ret.retrieved.avg_distance.inf

\* the distance between the query and the chunk listed, taken at the index
\* position of that chunk (the chunks of a store differ)
ListedDistance(q, chunk) ==
    Dist(q, rag.index[CHOOSE i \in 1..Len(rag.all_chunks) :
                          rag.all_chunks[i] = chunk])

\* C18: the chunks of the context block come nearest first, and each is
\* tagged with the source chunk_metadata holds at the chunk's own position.
C18_NearestFirstWithOwnSource ==
    Retrieved =>
        LET r == rag.ret.retrieved
            q == QueryOf(rag.ret)
        IN  /\ \A i, j \in 1..Len(r.relevant_chunks) :
                  i < j => ListedDistance(q, r.relevant_chunks[i])
                               <= ListedDistance(q, r.relevant_chunks[j])
            /\ \A j \in 1..Len(r.relevant_chunks) :
                  \E i \in 1..Len(rag.all_chunks) :
                      /\ rag.all_chunks[i] = r.relevant_chunks[j]
                      /\ rag.chunk_metadata[i].source_file = r.relevant_sources[j]

\* C19: the history is the last min(n, CONVERSATION_HISTORY_LIMIT) of the n
\* exchanges that succeeded since the last clear, in their order.
C19_HistoryIsLastExchanges ==
    rag.pc = "ready" =>
        LET n == Len(rag.log)
            kept == IF n < CONVERSATION_HISTORY_LIMIT THEN n
                    ELSE CONVERSATION_HISTORY_LIMIT
        IN  /\ Len(rag.conversation_history) <= CONVERSATION_HISTORY_LIMIT
            /\ rag.conversation_history = SubSeq(rag.log, n - kept + 1, n)

\* C19 witness: more exchanges succeeded than the history keeps
C19_Witness ==
    /\ rag.pc = "ready"
    /\ Len(rag.log) > CONVERSATION_HISTORY_LIMIT
    /\ Len(rag.conversation_history) = CONVERSATION_HISTORY_LIMIT

\* C20: a call of ask() in which the Embedder or the Answer Generator fails
\* returns a generation-error string and leaves the history as it was.
C20_FailureReturnsErrorString ==
    [][rag'.ret.failed \in {"embedder", "generator"}
        => /\ rag'.ret.kind = "returned"
           /\ rag'.ret.error
           /\ rag'.conversation_history = rag.conversation_history]_vars

\* the last call was clear_history()
Cleared == rag.ret.kind = "cleared"

\* C21: clear_history() leaves the history empty whatever it held, leaves
\* the index, the chunks and the chunk metadata as they were, and called
\* again right after itself it changes nothing.
C21_ClearEmptiesOnlyHistory ==
    [][Cleared' =>
          /\ rag'.conversation_history = <<>>
          /\ rag'.index = rag.index
          /\ rag'.all_chunks = rag.all_chunks
          /\ rag'.chunk_metadata = rag.chunk_metadata
          /\ rag'.pc = rag.pc
          /\ Cleared => rag'.conversation_history = rag.conversation_history]_vars

\* C21 witness: clear_history() was called on a history of several
\* exchanges and on a store of chunks
C21_Witness ==
    /\ Cleared
    /\ rag.ret.value[1] > 1
    /\ rag.conversation_history = <<>>
    /\ Len(rag.all_chunks) > 0

(***************************************************************************)
(* document_loader.py: the loader, call by call.                           *)
(***************************************************************************)
\* bytes that are no UTF-8 text, and a file of no byte
Undecodable == <<"x", "0xFF">>
Empty == <<>>

\* the states of a source file the loader is called on: a file that cannot
\* be opened, a file that cannot be decoded, a file of whitespace, a file
\* of no byte, files of text
LoaderFileStates ==
    FileStates \cup {File(Undecodable, TRUE), File(Empty, TRUE)}

\* the data folder as the user left it; no call yet
LoadInit ==
    /\ folderExists \in BOOLEAN
    /\ files \in [Names -> LoaderFileStates]
    /\ \A n \in Names : IsTxt(n) /\ files[n].present => folderExists
    /\ \A n \in Names : ~IsTxt(n) => files[n] = Other(folderExists)
    /\ lc = LcIdle
    /\ disk = [a \in ArtifactNames |-> Absent]
    /\ chatbot = NotInitialized
    /\ result = NoResult
    /\ persisted = NoSnapshot
    /\ faults = 0
    /\ ck = CkIdle
    /\ pd = PdIdle
    /\ rag = RagIdle
    /\ app = AppIdle
    /\ run = RunIdle

\* one call of load_documents_from_folder(DATA_FOLDER); l is what glob
\* yields
LoadDocuments(l) ==
    /\ lc.pc = "idle"
    /\ lc' = [pc |-> "done", listing |-> l,
              ret |-> load_documents_from_folder(folderExists, files, l)]
    /\ UNCHANGED <<folderExists, files, disk, chatbot, result, persisted,
                   faults, ck, pd, rag, app, run>>

LoadNext == \E l \in Listings(files) : LoadDocuments(l)

LoadSpec == LoadInit /\ [][LoadNext]_vars

\* the file named n opens, decodes and holds more than whitespace
Loadable(n) ==
    /\ files[n].readable
    /\ Decodable(files[n].bytes)
    /\ Strip(files[n].bytes) # <<>>

\* C23: a call of the loader that does not raise returns one document and
\* one metadata entry per file that opens, decodes and is not empty once
\* trimmed, in the order of the listing, the document being the trimmed
\* text and the metadata the name of the file; every other file is skipped.
C23_OneEntryPerLoadableFile ==
    (lc.pc = "done" /\ ~lc.ret.raised) =>
        LET names == SelectSeq(lc.listing, Loadable)
        IN  /\ Len(lc.ret.documents) = Len(names)
            /\ Len(lc.ret.metadata) = Len(names)
            /\ \A i \in 1..Len(names) :
                  /\ lc.ret.metadata[i] = [source_file |-> names[i]]
                  /\ lc.ret.documents[i] = Strip(files[names[i]].bytes)

\* C23 witness: the first file listed cannot be decoded and the second is
\* loaded
C23_Witness ==
    /\ lc.pc = "done"
    /\ ~lc.ret.raised
    /\ Len(lc.listing) = 2
    /\ ~Decodable(files[lc.listing[1]].bytes)
    /\ Len(lc.ret.documents) = 1
    /\ lc.ret.metadata[1].source_file = lc.listing[2]

(***************************************************************************)
(* app.py: the Flask app serving requests on threads.                      *)
(***************************************************************************)
\* the number of threads of the server, and the number of requests followed
MaxThreads == 2
MaxRequests == 3

Threads == 1..MaxThreads

\* a thread that serves no request
ThreadIdle == [pc |-> "idle", kind |-> "none", req |-> 0, bot |-> 0,
               seen |-> <<>>, response |-> "none"]

\* Chatbot(): index is None, and the RAGEngine has an empty history
NewChatbot == [index |-> FALSE, conversation_history |-> <<>>]

\* the Chatbot get_chatbot() makes at startup when app.py is run as the
\* main program (lines 110-114), before any request is served
StartedChatbot == [index |-> TRUE, conversation_history |-> <<>>]

\* the app before its first request: run as the main program, with the
\* global chatbot made at startup, or imported by a server, with the global
\* chatbot None (0).  instances are the Chatbot objects constructed so far,
\* builds the number of calls of initialize that returned, started the
\* number of requests received.
AppInit ==
    /\ app \in {[pc |-> "serving", chatbot |-> 0, instances |-> <<>>,
                 builds |-> 0, started |-> 0,
                 threads |-> [t \in Threads |-> ThreadIdle]],
                [pc |-> "serving", chatbot |-> 1,
                 instances |-> <<StartedChatbot>>,
                 builds |-> 1, started |-> 0,
                 threads |-> [t \in Threads |-> ThreadIdle]]}
    /\ folderExists = FALSE
    /\ files = [n \in Names |-> NoFile]
    /\ disk = [a \in ArtifactNames |-> Absent]
    /\ chatbot = NotInitialized
    /\ result = NoResult
    /\ persisted = NoSnapshot
    /\ faults = 0
    /\ ck = CkIdle
    /\ pd = PdIdle
    /\ rag = RagIdle
    /\ lc = LcIdle
    /\ run = RunIdle

\* the app is all that changes while it serves
AppOnly ==
    UNCHANGED <<folderExists, files, disk, chatbot, result, persisted, faults,
                ck, pd, rag, lc, run>>

\* thread t ends its request with a response
Respond(a, t, response) ==
    [a EXCEPT !.threads[t] = [ThreadIdle EXCEPT !.response = response]]

\* a request arrives and thread t takes it: a question on /api/chat
\* ("ask"), or the word clear on /api/chat or a post on /api/clear
\* ("clear"); both call get_chatbot() first
Receive(t, kind) ==
    /\ app.pc = "serving"
    /\ app.threads[t].pc = "idle"
    /\ app.started < MaxRequests
    /\ app' = [app EXCEPT !.started = app.started + 1,
                          !.threads[t] = [ThreadIdle EXCEPT
                                             !.pc = "check", !.kind = kind,
                                             !.req = app.started + 1]]
    /\ AppOnly

\* get_chatbot, line 20: if chatbot is None
Check(t) ==
    /\ app.pc = "serving"
    /\ app.threads[t].pc = "check"
    /\ app' = [app EXCEPT !.threads[t].pc =
                              IF app.chatbot = 0 THEN "construct" ELSE "return"]
    /\ AppOnly

\* get_chatbot, line 21: chatbot = Chatbot()
Construct(t) ==
    /\ app.pc = "serving"
    /\ app.threads[t].pc = "construct"
    /\ app' = [app EXCEPT !.instances = Append(app.instances, NewChatbot),
                          !.chatbot = Len(app.instances) + 1,
                          !.threads[t].pc = "initialize"]
    /\ AppOnly

\* get_chatbot, line 22: chatbot.initialize(DATA_FOLDER), on the Chatbot the
\* global names when the call is made; ok: initialize returns, otherwise it
\* raises and chat() answers with the error
InitializeChatbot(t, ok) ==
    /\ app.pc = "serving"
    /\ app.threads[t].pc = "initialize"
    /\ app' = IF ok
              THEN [app EXCEPT !.instances[app.chatbot].index = TRUE,
                               !.builds = app.builds + 1,
                               !.threads[t].pc = "return"]
              ELSE Respond(app, t, "error")
    /\ AppOnly

\* get_chatbot, line 23: return chatbot
Return(t) ==
    /\ app.pc = "serving"
    /\ app.threads[t].pc = "return"
    /\ app' = [app EXCEPT !.threads[t].bot = app.chatbot,
                          !.threads[t].pc = app.threads[t].kind]
    /\ AppOnly

\* Chatbot.clear_history: self.rag_engine.clear_history()
ServeClear(t) ==
    /\ app.pc = "serving"
    /\ app.threads[t].pc = "clear"
    /\ app' = Respond([app EXCEPT !.instances[app.threads[t].bot]
                                      .conversation_history = <<>>],
                      t, "cleared")
    /\ AppOnly

\* Chatbot.ask up to the prompt: the test of self.index, then in
\* RAGEngine.ask the retrieval and _build_conversation_context, which reads
\* the last exchanges of the history
ServeAskRead(t) ==
    /\ app.pc = "serving"
    /\ app.threads[t].pc = "ask"
    /\ LET bot == app.instances[app.threads[t].bot]
       IN  app' = IF ~bot.index
                  THEN Respond(app, t, "not initialized")
                  ELSE [app EXCEPT
                          !.threads[t].seen =
                              Slice(bot.conversation_history,
                                    -CONVERSATION_CONTEXT_WINDOW,
                                    Len(bot.conversation_history)),
                          !.threads[t].pc = "generate"]
    /\ AppOnly

\* RAGEngine.ask, lines 174-187: the call of the Answer Generator; when it
\* raises, ask returns the error string
ServeAskGenerate(t, genOk) ==
    /\ app.pc = "serving"
    /\ app.threads[t].pc = "generate"
    /\ app' = IF genOk THEN [app EXCEPT !.threads[t].pc = "append"]
              ELSE Respond(app, t, "error")
    /\ AppOnly

\* RAGEngine.ask, lines 190-193: conversation_history.append; the exchange
\* is named by the number of its request
ServeAskAppend(t) ==
    /\ app.pc = "serving"
    /\ app.threads[t].pc = "append"
    /\ app' = [app EXCEPT
                  !.instances[app.threads[t].bot].conversation_history =
                      Append(@, app.threads[t].req),
                  !.threads[t].pc = "evict"]
    /\ AppOnly

\* RAGEngine.ask, lines 196-200: the test of the length, pop(0), return
ServeAskEvict(t) ==
    /\ app.pc = "serving"
    /\ app.threads[t].pc = "evict"
    /\ app' = Respond([app EXCEPT
                          !.instances[app.threads[t].bot].conversation_history =
                              Evict(@)],
                      t, "answer")
    /\ AppOnly

AppNext ==
    \/ \E t \in Threads, kind \in {"ask", "clear"} : Receive(t, kind)
    \/ \E t \in Threads : Check(t)
    \/ \E t \in Threads : Construct(t)
    \/ \E t \in Threads, ok \in BOOLEAN : InitializeChatbot(t, ok)
    \/ \E t \in Threads : Return(t)
    \/ \E t \in Threads : ServeClear(t)
    \/ \E t \in Threads : ServeAskRead(t)
    \/ \E t \in Threads, genOk \in BOOLEAN : ServeAskGenerate(t, genOk)
    \/ \E t \in Threads : ServeAskAppend(t)
    \/ \E t \in Threads : ServeAskEvict(t)

AppSpec == AppInit /\ [][AppNext]_vars

(***************************************************************************)
(* chatbot.py: Chatbot.initialize step by step, the data folder being      *)
(* edited while it runs.                                                   *)
(***************************************************************************)
\* the number of runs of the program followed, and the number of edits of
\* the data folder made while they run
MaxRuns == 2
MaxEdits == 1

\* a call of initialize about to start; runs and edits count the calls and
\* the edits so far, readFiles and checkedFiles are the data folder as the
\* loader and as exists() saw it (observations)
RunStart(runs, edits) ==
    [pc |-> "load", runs |-> runs, edits |-> edits, path |-> "none",
     documents |-> <<>>, metadata |-> <<>>,
     built |-> [index |-> <<>>, chunks |-> <<>>, chunk_metadata |-> <<>>],
     saved |-> FALSE,
     readFiles |-> [n \in Names |-> NoFile],
     checkedFiles |-> [n \in Names |-> NoFile]]

\* The data folder is whatever the user left there, the vector_store
\* directory is empty, and the first run calls initialize.
RunInit ==
    /\ folderExists \in BOOLEAN
    /\ files \in [Names -> FileStates]
    /\ \A n \in Names : IsTxt(n) /\ files[n].present => folderExists
    /\ \A n \in Names : ~IsTxt(n) => files[n] = Other(folderExists)
    /\ disk = [a \in ArtifactNames |-> Absent]
    /\ chatbot = NotInitialized
    /\ run = RunStart(1, 0)
    /\ result = NoResult
    /\ persisted = NoSnapshot
    /\ faults = 0
    /\ ck = CkIdle
    /\ pd = PdIdle
    /\ rag = RagIdle
    /\ lc = LcIdle
    /\ app = AppIdle

\* what a step of a run leaves alone besides the files it reads and writes
RunOnly ==
    UNCHANGED <<result, persisted, faults, ck, pd, rag, lc, app>>

\* initialize, line 49: load_documents_from_folder(data_folder)
RunLoad(l) ==
    /\ run.pc = "load"
    /\ \E ld \in {load_documents_from_folder(folderExists, files, l)} :
          run' = IF ld.raised
                 THEN [run EXCEPT !.pc = "done", !.path = "notfound"]
                 ELSE [run EXCEPT !.pc = "exists",
                                  !.documents = ld.documents,
                                  !.metadata = ld.metadata,
                                  !.readFiles = files]
    /\ UNCHANGED <<folderExists, files, disk, chatbot>>
    /\ RunOnly

\* get_or_build, lines 187-190: if self.exists(folder_path), load() and
\* return what it read
RunExists(l) ==
    /\ run.pc = "exists"
    /\ \E ld \in {load(disk)} :
          IF exists(disk, folderExists, files, l) /\ ld.ok
          THEN /\ run' = [run EXCEPT !.pc = "done", !.path = "load",
                                     !.checkedFiles = files]
               /\ chatbot' = [initialized |-> TRUE, index |-> ld.index,
                              all_chunks |-> ld.chunks,
                              chunk_metadata |-> ld.chunk_metadata]
          ELSE /\ run' = [run EXCEPT !.pc = "build", !.checkedFiles = files]
               /\ UNCHANGED chatbot
    /\ UNCHANGED <<folderExists, files, disk>>
    /\ RunOnly

\* get_or_build, line 194: self.build(documents, metadata)
RunBuild ==
    /\ run.pc = "build"
    /\ \E b \in {build(run.documents, run.metadata)} :
          run' = IF b.raised
                 THEN [run EXCEPT !.pc = "done", !.path = "buildraise"]
                 ELSE [run EXCEPT !.pc = "save",
                                  !.built = [index |-> b.index,
                                             chunks |-> b.chunks,
                                             chunk_metadata |-> b.chunk_metadata]]
    /\ UNCHANGED <<folderExists, files, disk, chatbot>>
    /\ RunOnly

\* get_or_build, lines 197-201, and initialize, line 52: the fingerprint
\* of the data folder as it is now, the save under it (here a save that
\* completes), the return of the triple built
RunSave(l) ==
    /\ run.pc = "save"
    /\ \E files_hash \in {calculate_files_hash(folderExists, files, l)} :
          /\ disk' = IF files_hash # None
                     THEN save(disk, run.built.index, run.built.chunks,
                               run.built.chunk_metadata, files_hash,
                               FreshSid(disk, Len(Artifacts), FALSE),
                               Len(Artifacts), FALSE).disk
                     ELSE disk
          /\ run' = [run EXCEPT !.pc = "done", !.path = "build",
                                !.saved = files_hash # None]
    /\ chatbot' = [initialized |-> TRUE, index |-> run.built.index,
                   all_chunks |-> run.built.chunks,
                   chunk_metadata |-> run.built.chunk_metadata]
    /\ UNCHANGED <<folderExists, files>>
    /\ RunOnly

\* the program is started again: a new Chatbot calls initialize
RunAgain ==
    /\ run.pc = "done"
    /\ run.runs < MaxRuns
    /\ run' = RunStart(run.runs + 1, run.edits)
    /\ chatbot' = NotInitialized
    /\ UNCHANGED <<folderExists, files, disk>>
    /\ RunOnly

\* the user rewrites a readable source file, at any moment of a run or
\* between two runs
EditFile(n, b) ==
    /\ run.edits < MaxEdits
    /\ IsTxt(n)
    /\ files[n].present
    /\ files[n].readable
    /\ files[n].bytes # b
    /\ files' = [files EXCEPT ![n].bytes = b]
    /\ run' = [run EXCEPT !.edits = run.edits + 1]
    /\ UNCHANGED <<folderExists, disk, chatbot>>
    /\ RunOnly

RunNext ==
    \/ \E l \in Listings(files) : RunLoad(l)
    \/ \E l \in Listings(files) : RunExists(l)
    \/ RunBuild
    \/ \E l \in Listings(files) : RunSave(l)
    \/ RunAgain
    \/ \E n \in Names, b \in Contents : EditFile(n, b)

RunSpec == RunInit /\ [][RunNext]_vars

\* the fingerprints of the data folder in the state fs
HashesOf(fs) == {calculate_files_hash(TRUE, fs, l) : l \in Listings(fs)}

\* what build() returns for the documents of the data folder in the state fs
BuildsOf(fs) ==
    {LET ld == load_documents_from_folder(TRUE, fs, l)
     IN  build(ld.documents, ld.metadata) : l \in Listings(fs)}

\* C25: the fingerprint a run persists after a build is the fingerprint of
\* the data folder as the loader read it, and a run that loads the
\* persisted store holds an index built from the data folder as exists()
\* saw it.
C25_FingerprintOfDocumentsRead ==
    /\ (run.pc = "done" /\ run.path = "build" /\ run.saved) =>
          /\ disk["hash"].st = "ok"
          /\ disk["hash"].val \in HashesOf(run.readFiles)
    /\ (run.pc = "done" /\ run.path = "load") =>
          \E b \in BuildsOf(run.checkedFiles) :
              /\ chatbot.index = b.index
              /\ chatbot.all_chunks = b.chunks
              /\ chatbot.chunk_metadata = b.chunk_metadata

(***************************************************************************)
(* Termination of chunk_text.                                              *)
(***************************************************************************)
\* size - overlap, the number of words start moves by
Step == ck.chunk_size - ck.overlap

\* ceil(n / d) for d > 0
CeilDiv(n, d) == (n + d - 1) \div d

\* the safety part of C26, for a call with 0 <= overlap < chunk_size: after
\* k passes of the loop start is k * (size - overlap); the loop goes on
\* only while start < N; when it stopped start >= N and
\* ceil(N / (size - overlap)) chunks were emitted (none for N = 0); every
\* chunk has between 1 and size words
StartAdvancesByStep ==
    (ck.pc \in {"loop", "done"} /\ ck.overlap < ck.chunk_size) =>
        LET N == Len(ck.words)
        IN  /\ ck.start = Len(ck.chunks) * Step
            /\ ck.pc = "loop" => ck.start < N
            /\ ck.pc = "done" =>
                  /\ ck.start >= N
                  /\ Len(ck.chunks) = CeilDiv(N, Step)
                  /\ N = 0 => ck.chunks = <<>>
            /\ \A k \in 1..Len(ck.chunks) :
                  /\ 1 <= Len(Words(ck.chunks[k]))
                  /\ Len(Words(ck.chunks[k])) <= ck.chunk_size

\* C26: for 0 <= overlap < chunk_size, chunk_text terminates: start moves
\* by exactly size - overlap at each pass, the loop stops as soon as
\* start >= N, ceil(N / (size - overlap)) chunks are emitted for N > 0 and
\* none for N = 0, and each chunk has between 1 and size words.
C26_TerminatesWithCeilChunks ==
    /\ []StartAdvancesByStep
    /\ (ck.pc = "call" /\ ck.overlap < ck.chunk_size) ~> ChunkDone

\* C26 witness: a call on five words with size 2 and overlap 1 returned
\* its five chunks
C26_Witness ==
    /\ ChunkDone
    /\ ck.chunk_size = 2
    /\ ck.overlap = 1
    /\ Len(ck.words) = 5
    /\ Len(ck.chunks) = 5

(***************************************************************************)
(* Properties of the loader and of initialization.                         *)
(***************************************************************************)
\* the data folder holds no .txt file (or is not there)
NoTxtFile == \A n \in Names : IsTxt(n) => ~files[n].present

\* Chatbot.initialize was just called on the data folder as it is
InitializeCalled == result.path # "none"

\* C22: on a data folder that is missing or holds no .txt file the loader
\* raises and returns no document, and the initialization that called it
\* ends with that error: the Chatbot holds no index, whatever is persisted.
C22_NoFolderOrNoTxtRaises ==
    (~folderExists \/ NoTxtFile) =>
        /\ \A l \in Listings(files) :
              LET ld == load_documents_from_folder(folderExists, files, l)
              IN  ld.raised /\ ld.documents = <<>> /\ ld.metadata = <<>>
        /\ InitializeCalled =>
              /\ result.path = "notfound"
              /\ result.embeds = 0
              /\ chatbot = NotInitialized

\* C22 witness: initialization was called on a folder that is there and
\* holds no .txt file, while a complete store of an earlier corpus is
\* persisted
C22_Witness ==
    /\ folderExists
    /\ NoTxtFile
    /\ result.path = "notfound"
    /\ \A a \in ArtifactNames : disk[a].st = "ok"
    /\ chatbot = NotInitialized

\* the files save() writes before the fingerprint file
BeforeFingerprint == {a \in ArtifactNames : Position(a) < Position("hash")}

\* C29: a call of initialize changes the fingerprint file only in a save
\* whose writes of the index, the chunks and the metadata all completed;
\* a save that fails at one of these writes leaves the fingerprint file as
\* it was, stored or absent.
C29_FingerprintWrittenLast ==
    [][result'.path # "none" =>
          /\ disk'["hash"] # disk["hash"] =>
                \A a \in BeforeFingerprint :
                    /\ disk'[a].st = "ok"
                    /\ disk'[a].sid = disk'["hash"].sid
          /\ (result'.failedAt > 0 /\ result'.failedAt < Position("hash")) =>
                disk'["hash"] = disk["hash"]]_vars

\* C29 witness: a save failed at a write before that of the fingerprint
\* while the fingerprint of an earlier save was stored, and it still is
C29_Witness ==
    /\ result.failedAt > 0
    /\ result.failedAt < Position("hash")
    /\ disk["hash"].st = "ok"
    /\ disk["index"].sid # disk["hash"].sid

(***************************************************************************)
(* Properties of the prompt of ask().                                      *)
(***************************************************************************)
RECURSIVE SumOf(_)
\* the sum of a list of distances
SumOf(distances) ==
    IF distances = <<>> THEN 0 ELSE Head(distances) + SumOf(Tail(distances))

\* the scores a retrieval can report for 1..TOP_K_RESULTS distances, each
\* a mean given by its sum and its count; 3 / 2 is among them
FiniteScores ==
    {[inf |-> FALSE, count |-> c, sum |-> t] :
        c \in 1..TOP_K_RESULTS, t \in 0..(2 * ThresholdNumerator * TOP_K_RESULTS)}

\* the score sum / count is strictly above CONTEXT_RELEVANCE_THRESHOLD
AboveThreshold(sum, count) ==
    ThresholdDenominator * sum > ThresholdNumerator * count

\* C27: the prompt of ask() carries the low-confidence note exactly when
\* the score retrieval reported is strictly above
\* CONTEXT_RELEVANCE_THRESHOLD, an infinite score (no distance) being above
\* it; the score is the mean of all the distances returned, and retrieval
\* returns every chunk found whatever the score.
C27_NoteIffAboveThreshold ==
    /\ \A score \in FiniteScores :
          LowRelevance(score) <=> AboveThreshold(score.sum, score.count)
    /\ Mean(<<>>).inf /\ LowRelevance(Mean(<<>>))
    /\ Retrieved =>
          LET r == rag.ret.retrieved
          IN  /\ r.avg_distance.inf <=> r.distances = <<>>
              /\ r.avg_distance.count = Len(r.distances)
              /\ r.avg_distance.sum = SumOf(r.distances)
              /\ Len(r.relevant_chunks) = Len(r.indices)
              /\ rag.ret.prompt.context = r.context
              /\ rag.ret.prompt.context_relevance_note
                    <=> \/ r.distances = <<>>
                        \/ AboveThreshold(SumOf(r.distances), Len(r.distances))

\* C27 witness: on a store of top_k chunks or more, where every distance
\* returned is the distance of a chunk, a question got the note
C27_Witness ==
    /\ Retrieved
    /\ Len(rag.index) >= TOP_K_RESULTS
    /\ \A j \in 1..Len(rag.ret.retrieved.distances) :
          rag.ret.retrieved.distances[j] # FLT_MAX
    /\ ~rag.ret.retrieved.avg_distance.inf
    /\ rag.ret.prompt.context_relevance_note

\* the last min(Len(history), CONVERSATION_CONTEXT_WINDOW) exchanges of a
\* history, oldest first
LastExchanges(history) ==
    LET n == Len(history)
        k == IF n < CONVERSATION_CONTEXT_WINDOW THEN n
             ELSE CONVERSATION_CONTEXT_WINDOW
    IN  SubSeq(history, n - k + 1, n)

\* the conversation part of a prompt that forwards the exchanges given
Forwards(exchanges) ==
    IF exchanges = <<>> THEN <<>>
    ELSE <<"\n\nPrevious conversation:\n">> \o ConversationEntries(exchanges)

\* C28: the prompt of a call of ask() forwards exactly the last
\* min(len(history), CONVERSATION_CONTEXT_WINDOW) exchanges of the history
\* as it stood when the call was made, oldest first; and the history is
\* left as it was, but for the exchange the call appends once it was
\* answered and the oldest exchange that append pushes out.
C28_PromptForwardsWindow ==
    [][rag'.ret.kind = "returned" =>
          LET h == rag.conversation_history
          IN  /\ rag'.ret.prompt.conversation_context = Forwards(LastExchanges(h))
              /\ rag'.ret.error => rag'.conversation_history = h
              /\ ~rag'.ret.error =>
                    \E e \in {rag'.conversation_history[Len(rag'.conversation_history)]} :
                        /\ e.question = rag'.ret.prompt.question
                        /\ rag'.conversation_history
                              \in {Append(h, e), Tail(Append(h, e))}]_vars

\* C28 witness: a question was answered on a history of more exchanges
\* than the window, and its prompt forwarded the three before it
C28_Witness ==
    /\ rag.ret.kind = "returned"
    /\ ~rag.ret.error
    /\ Len(rag.conversation_history) > CONVERSATION_CONTEXT_WINDOW + 1
    /\ Len(rag.log) < CONVERSATION_HISTORY_LIMIT
    /\ rag.ret.prompt.conversation_context =
          Forwards(SubSeq(rag.conversation_history,
                          Len(rag.conversation_history) - CONVERSATION_CONTEXT_WINDOW,
                          Len(rag.conversation_history) - 1))

(***************************************************************************)
(* Properties of the app under concurrent requests.                        *)
(***************************************************************************)
\* thread t has read the history for its prompt and has not yet appended
\* its exchange and cut the history
BetweenReadAndEvict(t) == app.threads[t].pc \in {"generate", "append", "evict"}

\* this step is thread t reading the history (for its prompt) or mutating
\* it (append, pop, clear)
TouchesHistory(t) ==
    \/ app.threads[t].pc = "ask" /\ app'.threads[t].pc = "generate"
    \/ app.threads[t].pc \in {"append", "evict", "clear"}
         /\ app'.threads[t].pc # app.threads[t].pc

\* C24: the history of a Chatbot is guarded: no request reads or mutates it
\* while another request on the same Chatbot is between its read of the
\* history and its append and cut.
C24_HistoryIsGuarded ==
    [][\A t, u \in Threads :
          (t # u /\ TouchesHistory(t) /\ BetweenReadAndEvict(u))
              => app.threads[t].bot # app.threads[u].bot]_vars

\* C30: get_chatbot constructs at most one Chatbot and initialize returns
\* at most once, so every request is served by the same Chatbot.
C30_AtMostOneChatbot ==
    app.pc = "serving" =>
        /\ Len(app.instances) <= 1
        /\ app.builds <= 1
        /\ \A t \in Threads : app.threads[t].bot \in {0, 1}

====
